---- MODULE Spec2Model ----
(***************************************************************************)
(* Trading Strategy Metrics Dashboard (src/app.py): a Streamlit script     *)
(* that is re-executed from top to bottom after every widget interaction.  *)
(*                                                                         *)
(* The script computes with Python floats (IEEE-754 binary64).  TLC's      *)
(* integers are 32 bits wide, so binary64 values are modelled exactly on   *)
(* multi-limb naturals: a float is sgn * man * 2^exp with a 53-bit         *)
(* mantissa, and every arithmetic operation computes the exact result and  *)
(* rounds it once, to nearest, ties to even, as the hardware does.         *)
(***************************************************************************)
EXTENDS Integers, Sequences, FiniteSets, TLC

----------------------------------------------------------------------------
(* Multi-limb naturals: little-endian sequences of limbs in 0..Base-1,     *)
(* without most-significant zero limbs; zero is the empty sequence.        *)

LimbBits == 15
Base == 32768

\* 2^n for n in 0..LimbBits.
Pow2(n) ==
  <<1, 2, 4, 8, 16, 32, 64, 128, 256, 512, 1024, 2048, 4096, 8192, 16384,
    32768>>[n + 1]

Limb(a, i) == IF 1 <= i /\ i <= Len(a) THEN a[i] ELSE 0

\* The element of a singleton set.  TLC evaluates a LET definition and an
\* operator argument only where it is first used, which nests evaluations
\* deeply; Only({F(x) : x \in {e}}) evaluates e first and F of its value
\* afterwards.
Only(S) == CHOOSE x \in S : TRUE

\* The largest element of a nonempty set of integers.
MaxOf(S) == CHOOSE x \in S : \A y \in S : y <= x

NormOf(a) ==
  IF a = <<>> \/ a[Len(a)] # 0 THEN a
  ELSE LET nz == {i \in 1..Len(a) : a[i] # 0}
       IN  IF nz = {} THEN <<>> ELSE SubSeq(a, 1, MaxOf(nz))

\* a without its most-significant zero limbs.
BNorm(a) == Only({NormOf(x) : x \in {a}})

BFromInt(n) ==
  IF n = 0 THEN <<>>
  ELSE IF n < Base THEN <<n>>
  ELSE IF n < Base * Base THEN <<n % Base, n \div Base>>
  ELSE <<n % Base, (n \div Base) % Base, n \div (Base * Base)>>

\* The value of a, which must be below 2^31.
BToInt(a) == Limb(a, 1) + Base * Limb(a, 2) + Base * Base * Limb(a, 3)

\* a + b.  Limb sums are formed independently; the carry into limb i comes
\* from the nearest lower limb whose sum is not Base - 1.
CarryIn(s, i) ==
  IF i = 1 THEN 0
  ELSE IF s[i - 1] # Base - 1 THEN (IF s[i - 1] >= Base THEN 1 ELSE 0)
  ELSE IF \E j \in 1..(i - 2) :
            s[j] >= Base /\ \A k \in (j + 1)..(i - 2) : s[k] = Base - 1
       THEN 1 ELSE 0

AddCarries(s) ==
  NormOf([i \in 1..Len(s) |-> (s[i] + CarryIn(s, i)) % Base]
           \o <<CarryIn(s, Len(s) + 1)>>)

LimbSums(a, b) ==
  [i \in 1..(IF Len(a) > Len(b) THEN Len(a) ELSE Len(b)) |->
     Limb(a, i) + Limb(b, i)] \o <<>>

BAdd(a, b) ==
  Only({AddCarries(s) : s \in {LimbSums(x, y) : x \in {a}, y \in {b}}})

\* a - b, for a >= b.  The borrow into limb i comes from the nearest lower
\* limb where the two numbers differ.
BorrowIn(d, i) ==
  IF i = 1 THEN 0
  ELSE IF d[i - 1] # 0 THEN (IF d[i - 1] < 0 THEN 1 ELSE 0)
  ELSE IF \E j \in 1..(i - 2) :
            d[j] < 0 /\ \A k \in (j + 1)..(i - 2) : d[k] = 0
       THEN 1 ELSE 0

SubBorrows(d) ==
  NormOf([i \in 1..Len(d) |-> (d[i] - BorrowIn(d, i) + Base) % Base] \o <<>>)

LimbDiffs(a, b) == [i \in 1..Len(a) |-> a[i] - Limb(b, i)] \o <<>>

BSub(a, b) ==
  Only({SubBorrows(d) : d \in {LimbDiffs(x, y) : x \in {a}, y \in {b}}})

\* -1, 0 or 1 as a < b, a = b, a > b (a and b without leading zero limbs).
CmpOf(a, b) ==
  IF Len(a) < Len(b) THEN -1
  ELSE IF Len(a) > Len(b) THEN 1
  ELSE LET df == {i \in 1..Len(a) : a[i] # b[i]}
       IN  IF df = {} THEN 0
           ELSE IF a[MaxOf(df)] < b[MaxOf(df)] THEN -1 ELSE 1

BCmp(a, b) == Only({CmpOf(x, y) : x \in {a}, y \in {b}})

Zeros(n) == [i \in 1..n |-> 0] \o <<>>

BShlLimbs(a, n) == IF a = <<>> THEN <<>> ELSE Zeros(n) \o a

\* a * k, for 0 <= k < Base: the low halves of the limb products plus the
\* high halves one limb up.
MulSmallOf(a, k) ==
  AddCarries(LimbSums([i \in 1..Len(a) |-> (a[i] * k) % Base] \o <<>>,
                      <<0>> \o [i \in 1..Len(a) |-> (a[i] * k) \div Base]))

BMulSmall(a, k) == Only({MulSmallOf(x, k) : x \in {a}})

RECURSIVE BMulFrom(_, _, _)
BMulFrom(a, b, i) ==
  IF i > Len(a) THEN <<>>
  ELSE Only({BAdd(BShlLimbs(low, i - 1), up) :
               low \in {BMulSmall(b, a[i])}, up \in {BMulFrom(a, b, i + 1)}})

\* a * b (the recursion runs over the limbs of a).
BMul(a, b) == BMulFrom(a, b, 1)

RECURSIVE BitLenSmall(_)
BitLenSmall(x) == IF x = 0 THEN 0 ELSE 1 + BitLenSmall(x \div 2)

BBitLen(a) ==
  IF a = <<>> THEN 0 ELSE LimbBits * (Len(a) - 1) + BitLenSmall(a[Len(a)])

ShlOf(a, n) ==
  LET r == n % LimbBits
  IN  BShlLimbs(
        NormOf([i \in 1..(Len(a) + 1) |->
                  ((Limb(a, i) * Pow2(r)) % Base)
                    + (Limb(a, i - 1) \div Pow2(LimbBits - r))] \o <<>>),
        n \div LimbBits)

\* a * 2^n.
BShl(a, n) == Only({ShlOf(x, n) : x \in {a}})

BDropLimbs(a, n) == IF n >= Len(a) THEN <<>> ELSE SubSeq(a, n + 1, Len(a))

ShrBits(b, r) ==
  NormOf([i \in 1..Len(b) |->
            (b[i] \div Pow2(r))
              + ((Limb(b, i + 1) % Pow2(r)) * Pow2(LimbBits - r))] \o <<>>)

\* floor(a / 2^n).
BShr(a, n) ==
  Only({ShrBits(BDropLimbs(x, n \div LimbBits), n % LimbBits) : x \in {a}})

\* Bit n (from 0) of a.
BBit(a, n) == (Limb(a, n \div LimbBits + 1) \div Pow2(n % LimbBits)) % 2

\* Whether the n lowest bits of a are all zero.
BLowZero(a, n) ==
  /\ \A i \in 1..(n \div LimbBits) : Limb(a, i) = 0
  /\ Limb(a, n \div LimbBits + 1) % Pow2(n % LimbBits) = 0

BIsOdd(a) == Limb(a, 1) % 2 = 1

\* One quotient limb of long division: the largest q with q * d <= r, for
\* r < d * Base and d's top limb at least Base / 2 (the estimate from the
\* two leading limbs is then at most 2 too large).
RECURSIVE QFix(_, _, _)
QFix(r, d, q) ==
  IF BCmp(BMulSmall(d, q), r) = 1 THEN QFix(r, d, q - 1) ELSE q

QLimb(r, d) ==
  LET k   == Len(d)
      top == Limb(r, k + 1) * Base + Limb(r, k)
      est == top \div d[k]
  IN  QFix(r, d, IF est > Base - 1 THEN Base - 1 ELSE est)

\* Long division, most significant limb first: <<quotient limbs from limb i
\* up (little-endian), remainder after limb i>>.  The Len(d) - 1 leading
\* limbs of n are below d and start the remainder.
BDivStep(limb, d, up) ==
  Only({ Only({ <<(<<q>>) \o up[1], BSub(r, BMulSmall(d, q))>> :
                  q \in {QLimb(r, d)} }) :
           r \in {BNorm(<<limb>> \o up[2])} })

RECURSIVE BDivFrom(_, _, _)
BDivFrom(n, d, i) ==
  IF i > Len(n) - (Len(d) - 1) THEN <<(<<>>), BDropLimbs(n, i - 1)>>
  ELSE Only({BDivStep(n[i], d, up) : up \in {BDivFrom(n, d, i + 1)}})

\* <<floor(n / d), whether the division left a remainder>>, for d > 0.
BDivSticky(n, d) ==
  LET s == LimbBits - BitLenSmall(d[Len(d)])
  IN  Only({ <<BNorm(qr[1]), qr[2] # <<>>>> :
               qr \in { BDivFrom(nn, dn, 1) :
                          nn \in {BShl(n, s)}, dn \in {BShl(d, s)} } })

----------------------------------------------------------------------------
(* Python floats.  A nonzero float is [sgn, man, exp] with value            *)
(* (-1)^sgn * man * 2^exp and man of exactly MantBits bits; zero has the    *)
(* empty mantissa.  The values of this program stay far inside the normal   *)
(* range of binary64, so no subnormal, infinity or NaN arises.              *)

MantBits == 53

FZero == [sgn |-> 0, man |-> <<>>, exp |-> 0]

FIsZero(a) == a.man = <<>>

\* The float nearest to (-1)^sgn * (n + f) * 2^e, where n > 0 and f in [0, 1)
\* is nonzero exactly when sticky holds (then n has more than MantBits bits).
\* mode "nearest" rounds to nearest, ties to even; "below" and "above" round
\* the magnitude down and up.
RoundOf(sgn, n, e, sticky, mode) ==
  LET len == BBitLen(n)
  IN  IF len <= MantBits
      THEN [sgn |-> sgn, man |-> BShl(n, MantBits - len),
            exp |-> e - (MantBits - len)]
      ELSE LET k    == len - MantBits
               q    == BShr(n, k)
               half == BBit(n, k - 1) = 1
               rest == sticky \/ ~BLowZero(n, k - 1)
               up   == IF mode = "nearest" THEN half /\ (rest \/ BIsOdd(q))
                       ELSE IF mode = "above" THEN half \/ rest
                       ELSE FALSE
               q2   == IF up THEN BAdd(q, <<1>>) ELSE q
           IN  IF BBitLen(q2) > MantBits
               THEN [sgn |-> sgn, man |-> BShr(q2, 1), exp |-> e + k + 1]
               ELSE [sgn |-> sgn, man |-> q2, exp |-> e + k]

FRoundMode(sgn, n, e, sticky, mode) ==
  Only({RoundOf(sgn, x, e, sticky, mode) : x \in {n}})

FRound(sgn, n, e, sticky) == FRoundMode(sgn, n, e, sticky, "nearest")

\* float(n) of a Python int n >= 0 (exact below 2^53).
IntToF(n) == IF n = 0 THEN FZero ELSE FRound(0, BFromInt(n), 0, FALSE)

FNeg(a) == IF FIsZero(a) THEN a ELSE [a EXCEPT !.sgn = 1 - a.sgn]

\* abs(a)
FAbs(a) == [a EXCEPT !.sgn = 0]

MulOf(a, b) ==
  IF FIsZero(a) \/ FIsZero(b) THEN FZero
  ELSE FRound((a.sgn + b.sgn) % 2, BMul(a.man, b.man), a.exp + b.exp, FALSE)

\* a * b
FMul(a, b) == Only({MulOf(x, y) : x \in {a}, y \in {b}})

\* a / b for b # 0 (Python raises ZeroDivisionError for b = 0: the callers
\* test the divisor first).
DivOf(a, b) ==
  IF FIsZero(a) THEN FZero
  ELSE Only({FRound((a.sgn + b.sgn) % 2, qs[1],
                    a.exp - b.exp - (MantBits + 3), qs[2]) :
               qs \in {BDivSticky(BShl(a.man, MantBits + 3), b.man)}})

FDiv(a, b) == Only({DivOf(x, y) : x \in {a}, y \in {b}})

AddOf(a, b) ==
  IF FIsZero(a) THEN b
  ELSE IF FIsZero(b) THEN a
  ELSE LET e  == IF a.exp < b.exp THEN a.exp ELSE b.exp
           ma == BShl(a.man, a.exp - e)
           mb == BShl(b.man, b.exp - e)
           c  == BCmp(ma, mb)
       IN  IF a.sgn = b.sgn THEN FRound(a.sgn, BAdd(ma, mb), e, FALSE)
           ELSE IF c = 0 THEN FZero
           ELSE IF c = 1 THEN FRound(a.sgn, BSub(ma, mb), e, FALSE)
           ELSE FRound(b.sgn, BSub(mb, ma), e, FALSE)

\* a + b
FAdd(a, b) == Only({AddOf(x, y) : x \in {a}, y \in {b}})

\* a - b
FSub(a, b) == FAdd(a, FNeg(b))

\* -1, 0 or 1 as a < b, a = b, a > b.
FCmp(a, b) ==
  LET d == FSub(a, b)
  IN  IF FIsZero(d) THEN 0 ELSE IF d.sgn = 1 THEN -1 ELSE 1

FLe(a, b) == FCmp(a, b) <= 0

\* int(a) for a >= 0: truncation; the result must be below 2^31.
FTrunc(a) ==
  IF FIsZero(a) THEN 0
  ELSE IF a.exp >= 0 THEN BToInt(BShl(a.man, a.exp))
  ELSE BToInt(BShr(a.man, 0 - a.exp))

\* <<a, a^2, ..., a^n>> for a multi-limb natural a, exactly.
RECURSIVE ExactPowers(_, _)
ExactPowers(a, n) ==
  IF n = 1 THEN <<a>>
  ELSE Only({Append(ps, BMul(a, ps[n - 1])) : ps \in {ExactPowers(a, n - 1)}})

\* <<a ** 1, ..., a ** n>> for a float a > 0.  CPython calls the C library's
\* pow(), whose result is within one unit in the last place of the exact
\* power: the float just below it or just above it, and the exact power
\* itself when that is a float.  libm names which the library returns:
\* "nearest" (a correctly rounded pow), "below" or "above".
Powers(a, n, libm) ==
  Only({ Only({ [m \in 1..n |->
                   FRoundMode(0, ps[m], x.exp * m, FALSE, libm)] \o <<>> :
                  ps \in {ExactPowers(x.man, n)} }) :
           x \in {a} })

\* ------------------------------------------------------------------------
\* Number formatting: f"{x:,.2f}" and f"{x:.2f}" print the decimal with two
\* places nearest to the binary value of x, ties to the even digit, for any
\* x >= 0.  The printed text is modelled as <<groups, hundredths>>, where
\* groups are the three-digit groups of the whole part, most significant
\* first, as "," separates them ("1,500.00" is <<<<1, 500>>, 0>>, "0.25" is
\* <<<<0>>, 25>>); f"{x:.2f}" prints the same digits without the
\* separators.  The text of an integer n is modelled as <<n>>.
\* ------------------------------------------------------------------------

\* round-half-even of man * 2^exp * 100 as a multi-limb natural.
HundredthsOf(a) ==
  IF FIsZero(a) THEN <<>>
  ELSE IF a.exp >= 0 THEN BShl(BMulSmall(a.man, 100), a.exp)
  ELSE LET n    == BMulSmall(a.man, 100)
           k    == 0 - a.exp
           q    == BShr(n, k)
           half == BBit(n, k - 1) = 1
           rest == ~BLowZero(n, k - 1)
       IN  IF half /\ (rest \/ BIsOdd(q)) THEN BAdd(q, <<1>>) ELSE q

Hundredths(a) == Only({HundredthsOf(x) : x \in {a}})

\* Short division by k, 0 < k < Base, most significant limb first:
\* <<quotient limbs from limb i up (little-endian), remainder after limb i>>.
RECURSIVE DivSmallFrom(_, _, _)
DivSmallFrom(a, k, i) ==
  IF i > Len(a) THEN <<(<<>>), 0>>
  ELSE Only({ << (<<(up[2] * Base + a[i]) \div k>>) \o up[1],
                 (up[2] * Base + a[i]) % k >> :
              up \in {DivSmallFrom(a, k, i + 1)} })

\* <<floor(a / k), a mod k>> for a multi-limb natural a and 0 < k < Base.
BDivSmall(a, k) ==
  Only({ <<NormOf(qr[1]), qr[2]>> : qr \in {DivSmallFrom(x, k, 1) : x \in {a}} })

\* The three-digit groups of a multi-limb natural n, most significant first.
RECURSIVE Thousands(_)
Thousands(n) ==
  Only({ IF qr[1] = <<>> THEN <<qr[2]>> ELSE Thousands(qr[1]) \o <<qr[2]>> :
           qr \in {BDivSmall(n, 1000)} })

Fixed2(a) ==
  Only({ <<Thousands(qr[1]), qr[2]>> :
           qr \in {BDivSmall(h, 100) : h \in {Hundredths(a)}} })

\* ------------------------------------------------------------------------
\* The controls.  A control is identified by the arguments of the call that
\* draws it, so a slider drawn with another max_value is another control
\* and starts again from its default value.  Percent sliders with step 0.1
\* hold tenths of a percent, prices with step 0.01 hold cents.
\* ------------------------------------------------------------------------

PortfolioInput ==
  [label |-> "Initial Portfolio (USD)", min_value |-> 1000,
   max_value |-> 1000000, value |-> 75000]

RiskSlider ==
  [label |-> "Risk Per Trade (%)", min_value |-> 5, max_value |-> 50,
   value |-> 20]

MaxDDSlider ==
  [label |-> "Estimated Max Drawdown (%)", min_value |-> 50, max_value |-> 500,
   value |-> 326]

BestSlider ==
  [label |-> "Best Case Return (%)", min_value |-> 0, max_value |-> 100,
   value |-> 66]

NormalSlider(best) ==
  [label |-> "Normal Case Return (%)", min_value |-> 0, max_value |-> best,
   value |-> 32]

WorstSlider(normal) ==
  [label |-> "Worst Case Return (%)", min_value |-> 0, max_value |-> normal,
   value |-> 21]

EntryInput == [label |-> "Entry Price", min_value |-> 1, value |-> 10000]

StopInput == [label |-> "Stop Loss Price", min_value |-> 1, value |-> 9500]

Min2(x, y) == IF x <= y THEN x ELSE y

Max2(x, y) == IF x >= y THEN x ELSE y

\* The range a slider offers: st.slider makes sure that
\* min <= value <= max by widening the bounds to hold the default value.
SliderMin(w) == Min2(w.value, Min2(w.min_value, w.max_value))

SliderMax(w) == Max2(w.value, Max2(w.min_value, w.max_value))

\* What the call that draws control w returns: the value the user left it
\* at, the default when it is drawn for the first time.
WidgetValue(ws, w) == IF w \in DOMAIN ws THEN ws[w] ELSE w.value

\* tenths / 10 and cents / 100 as the float the control hands to the script.
Tenths(t) == FDiv(IntToF(t), IntToF(10))

Cents(c) == FDiv(IntToF(c), IntToF(100))

\* ------------------------------------------------------------------------
\* The script's expressions.
\* ------------------------------------------------------------------------

None == <<>>

Months == 12

\* What a division by zero raises.
ZeroDivisionError == [exception |-> "ZeroDivisionError"]

\* a / b on floats.
PyDiv(a, b) == IF FIsZero(b) THEN ZeroDivisionError ELSE FDiv(a, b)

RiskAmountFloorDiv(initial_portfolio, risk_percentage) ==
  FMul(IntToF(initial_portfolio),
       IntToF(FTrunc(FDiv(risk_percentage, IntToF(100)))))

\* risk_amount = initial_portfolio * (risk_percentage / 100)
RiskAmount(initial_portfolio, risk_percentage) ==
  FMul(IntToF(initial_portfolio), FDiv(risk_percentage, IntToF(100)))

\* max_loss = initial_portfolio * (max_dd / 100)
MaxLoss(initial_portfolio, max_dd) ==
  FMul(IntToF(initial_portfolio), FDiv(max_dd, IntToF(100)))

RemainingPortfolioSwapped(initial_portfolio, max_loss) ==
  FSub(max_loss, IntToF(initial_portfolio))

\* remaining_portfolio = initial_portfolio - max_loss
RemainingPortfolio(initial_portfolio, max_loss) ==
  FSub(IntToF(initial_portfolio), max_loss)

\* max_trades = initial_portfolio / risk_amount
MaxTrades(initial_portfolio, risk_amount) ==
  PyDiv(IntToF(initial_portfolio), risk_amount)

GrowthFromZero(case, libm) ==
  <<IntToF(1)>> \o
    Powers(FAdd(IntToF(1), FDiv(IntToF(case), IntToF(100))), Months - 1, libm)

\* [(1 + case/100) ** m for m in months]
Growth(case, libm) ==
  Powers(FAdd(IntToF(1), FDiv(IntToF(case), IntToF(100))), Months, libm)

ProjectionLinear(initial_portfolio, case, libm) ==
  [m \in 1..Months |->
     FMul(IntToF(initial_portfolio),
          FAdd(IntToF(1), FMul(FDiv(IntToF(case), IntToF(100)), IntToF(m))))]
    \o <<>>

\* The linear projection of the dashboard's other variant:
\* value(m) = portfolio + portfolio * (pct / 100) * m for m in 1..12.
LinearProjection(initial_portfolio, case) ==
  [m \in 1..Months |->
     FAdd(IntToF(initial_portfolio),
          FMul(FMul(IntToF(initial_portfolio),
                    FDiv(IntToF(case), IntToF(100))),
               IntToF(m)))] \o <<>>

\* [initial_portfolio * (1 + case/100) ** m for m in months]
Projection(initial_portfolio, case, libm) ==
  Only({[m \in 1..Months |-> FMul(IntToF(initial_portfolio), g[m])] \o <<>> :
          g \in {Growth(case, libm)}})

PositionSizeSigned(risk_per_trade, entry_price, stop_loss) ==
  PyDiv(risk_per_trade, FSub(entry_price, stop_loss))

\* position_size = abs(risk_per_trade / (entry_price - stop_loss))
PositionSize(risk_per_trade, entry_price, stop_loss) ==
  Only({IF q = ZeroDivisionError THEN q ELSE FAbs(q) :
          q \in {PyDiv(risk_per_trade, FSub(entry_price, stop_loss))}})

\* total_position_value = position_size * entry_price
TotalPositionValue(position_size, entry_price) ==
  FMul(position_size, entry_price)

\* initial_portfolio / max_trades, the Average Trade Size shown.
AverageTradeSize(initial_portfolio, max_trades) ==
  PyDiv(IntToF(initial_portfolio), max_trades)

\* ------------------------------------------------------------------------
\* State.
\* ------------------------------------------------------------------------

VARIABLES
  widgets,               \* control |-> the value the user left it at
  session_state,         \* st.session_state: key |-> value
  libm,                  \* how this platform's pow() rounds
  status,                \* "rerun" (a pass is due), "done", "ZeroDivisionError"
  raised,                \* source line of the exception that ended the pass, 0 if none
  initial_portfolio, risk_percentage, max_dd,
  best_case, normal_case, worst_case,
  risk_amount, max_loss, remaining_portfolio, max_trades,
  best_case_proj, normal_case_proj, worst_case_proj,
  entry_price, stop_loss, risk_per_trade, position_size,
  total_position_value,
  page                   \* the figures the pass has drawn

script == <<initial_portfolio, risk_percentage, max_dd,
            best_case, normal_case, worst_case,
            risk_amount, max_loss, remaining_portfolio, max_trades,
            best_case_proj, normal_case_proj, worst_case_proj,
            entry_price, stop_loss, risk_per_trade, position_size,
            total_position_value>>

vars == <<widgets, session_state, libm, status, raised, script, page>>

\* No script variable is bound.
Unbound ==
  /\ initial_portfolio = None /\ risk_percentage = None /\ max_dd = None
  /\ best_case = None /\ normal_case = None /\ worst_case = None
  /\ risk_amount = None /\ max_loss = None /\ remaining_portfolio = None
  /\ max_trades = None
  /\ best_case_proj = None /\ normal_case_proj = None
  /\ worst_case_proj = None
  /\ entry_price = None /\ stop_loss = None /\ risk_per_trade = None
  /\ position_size = None /\ total_position_value = None

\* A session starts with no control drawn, nothing stored, and the first
\* pass of the script due.
InitWith(libms) ==
  /\ widgets = <<>>
  /\ session_state = <<>>
  /\ libm \in libms
  /\ status = "rerun"
  /\ raised = 0
  /\ Unbound
  /\ page = None

Init == InitWith({"nearest", "below", "above"})

ChangeWithoutRerun(w, v) ==
  /\ status # "rerun"
  /\ w \in DOMAIN widgets
  /\ v # widgets[w]
  /\ widgets' = [widgets EXCEPT ![w] = v]
  /\ UNCHANGED <<session_state, libm, status, raised, script, page>>

\* The user sets control w to v.  Streamlit then runs the script again from
\* the top, in a fresh namespace.
Change(w, v) ==
  /\ status # "rerun"
  /\ w \in DOMAIN widgets
  /\ v # widgets[w]
  /\ widgets' = [widgets EXCEPT ![w] = v]
  /\ status' = "rerun"
  /\ raised' = 0
  /\ initial_portfolio' = None /\ risk_percentage' = None /\ max_dd' = None
  /\ best_case' = None /\ normal_case' = None /\ worst_case' = None
  /\ risk_amount' = None /\ max_loss' = None /\ remaining_portfolio' = None
  /\ max_trades' = None
  /\ best_case_proj' = None /\ normal_case_proj' = None
  /\ worst_case_proj' = None
  /\ entry_price' = None /\ stop_loss' = None /\ risk_per_trade' = None
  /\ position_size' = None /\ total_position_value' = None
  /\ page' = None
  /\ UNCHANGED <<session_state, libm>>

\* The control, among those drawn, that carries this label.
Drawn(label) == {w \in DOMAIN widgets : w.label = label}

\* A number input takes the values from its min_value to its max_value.
ChangeNumberInput(w, v) ==
  /\ w.min_value <= v
  /\ "max_value" \in DOMAIN w => v <= w.max_value
  /\ Change(w, v)

\* A slider takes the values of the range it offers.
ChangeSlider(w, v) ==
  /\ SliderMin(w) <= v
  /\ v <= SliderMax(w)
  /\ Change(w, v)

ChangePortfolio(values) ==
  \E w \in Drawn(PortfolioInput.label) : \E v \in values :
    ChangeNumberInput(w, v)

ChangeRisk(values) ==
  \E w \in Drawn(RiskSlider.label) : \E v \in values : ChangeSlider(w, v)

ChangeMaxDD(values) ==
  \E w \in Drawn(MaxDDSlider.label) : \E v \in values : ChangeSlider(w, v)

ChangeBest(values) ==
  \E w \in Drawn(BestSlider.label) : \E v \in values : ChangeSlider(w, v)

ChangeNormal(values) ==
  \E w \in Drawn(NormalSlider(0).label) : \E v \in values : ChangeSlider(w, v)

ChangeWorst(values) ==
  \E w \in Drawn(WorstSlider(0).label) : \E v \in values : ChangeSlider(w, v)

ChangeEntry(values) ==
  \E w \in Drawn(EntryInput.label) : \E v \in values : ChangeNumberInput(w, v)

ChangeStop(values) ==
  \E w \in Drawn(StopInput.label) : \E v \in values : ChangeNumberInput(w, v)

\* The statement at source line l ran in a pass that raised at line r.
Ran(r, l) == r = 0 \/ l < r

\* The source line whose division by zero ends the pass, 0 when the pass
\* runs to its end: line 54 divides by risk_amount, line 168 by max_trades,
\* line 186 by entry_price - stop_loss.
RaisedAt(p, ra, entry, stop) ==
  Only({IF trades = ZeroDivisionError THEN 54
        ELSE IF AverageTradeSize(p, trades) = ZeroDivisionError THEN 168
        ELSE IF PositionSize(ra, entry, stop) = ZeroDivisionError THEN 186
        ELSE 0 :
          trades \in {MaxTrades(p, ra)}})

\* One pass of the script, top to bottom.  A division by zero ends the pass
\* at its line: the statements after it do not run, the figures after it are
\* not drawn.
Render ==
  /\ status = "rerun"
  /\ initial_portfolio' = WidgetValue(widgets, PortfolioInput)
  /\ risk_percentage' = Tenths(WidgetValue(widgets, RiskSlider))
  /\ max_dd' = Tenths(WidgetValue(widgets, MaxDDSlider))
  /\ best_case' = WidgetValue(widgets, BestSlider)
  /\ normal_case' = WidgetValue(widgets, NormalSlider(best_case'))
  /\ worst_case' = WidgetValue(widgets, WorstSlider(normal_case'))
  /\ risk_amount' = RiskAmount(initial_portfolio', risk_percentage')
  /\ max_loss' = MaxLoss(initial_portfolio', max_dd')
  /\ remaining_portfolio' = RemainingPortfolio(initial_portfolio', max_loss')
  /\ raised' = RaisedAt(initial_portfolio', risk_amount',
                        Cents(WidgetValue(widgets, EntryInput)),
                        Cents(WidgetValue(widgets, StopInput)))
  /\ max_trades' = IF Ran(raised', 54)
                   THEN MaxTrades(initial_portfolio', risk_amount') ELSE None
  /\ best_case_proj' =
       IF Ran(raised', 133)
       THEN Projection(initial_portfolio', best_case', libm) ELSE None
  /\ normal_case_proj' =
       IF Ran(raised', 134)
       THEN Projection(initial_portfolio', normal_case', libm) ELSE None
  /\ worst_case_proj' =
       IF Ran(raised', 135)
       THEN Projection(initial_portfolio', worst_case', libm) ELSE None
  /\ entry_price' = IF Ran(raised', 179)
                    THEN Cents(WidgetValue(widgets, EntryInput)) ELSE None
  /\ stop_loss' = IF Ran(raised', 182)
                  THEN Cents(WidgetValue(widgets, StopInput)) ELSE None
  /\ risk_per_trade' = IF Ran(raised', 185) THEN risk_amount' ELSE None
  /\ position_size' =
       IF Ran(raised', 186)
       THEN PositionSize(risk_per_trade', entry_price', stop_loss') ELSE None
  /\ total_position_value' =
       IF Ran(raised', 187)
       THEN TotalPositionValue(position_size', entry_price') ELSE None
  /\ page' =
       [initial_portfolio |->
          IF Ran(raised', 66) THEN Fixed2(IntToF(initial_portfolio')) ELSE None,
        risk_amount |->
          IF Ran(raised', 73) THEN Fixed2(risk_amount') ELSE None,
        max_loss |->
          IF Ran(raised', 81) THEN Fixed2(max_loss') ELSE None,
        max_trades |->
          IF Ran(raised', 160) THEN <<FTrunc(max_trades')>> ELSE None,
        remaining_portfolio |->
          IF Ran(raised', 165) THEN Fixed2(remaining_portfolio') ELSE None,
        average_trade_size |->
          IF Ran(raised', 168)
          THEN Fixed2(AverageTradeSize(initial_portfolio', max_trades'))
          ELSE None,
        position_size |->
          IF Ran(raised', 191) THEN Fixed2(position_size') ELSE None,
        total_position_value |->
          IF Ran(raised', 192) THEN Fixed2(total_position_value') ELSE None]
  /\ widgets' =
       [w \in {PortfolioInput, RiskSlider, MaxDDSlider, BestSlider,
               NormalSlider(best_case'), WorstSlider(normal_case')}
              \cup (IF Ran(raised', 179) THEN {EntryInput} ELSE {})
              \cup (IF Ran(raised', 182) THEN {StopInput} ELSE {})
          |-> WidgetValue(widgets, w)]
  /\ session_state' =
       IF Ran(raised', 205) /\ "portfolio_history" \notin DOMAIN session_state
       THEN [k \in DOMAIN session_state \cup {"portfolio_history"} |->
               IF k = "portfolio_history" THEN <<>> ELSE session_state[k]]
       ELSE session_state
  /\ status' = IF raised' = 0 THEN "done" ELSE "ZeroDivisionError"
  /\ UNCHANGED libm

\* ------------------------------------------------------------------------
\* The whole dashboard, each control moved between its default and one
\* other position.
\* ------------------------------------------------------------------------

Next ==
  \/ Render
  \/ ChangePortfolio({75000, 1000})
  \/ ChangeRisk({20, 5})
  \/ ChangeMaxDD({326, 500})
  \/ ChangeBest({66, 20})
  \/ ChangeNormal({32, 10})
  \/ ChangeWorst({21, 0})
  \/ ChangeEntry({10000, 9500})
  \/ ChangeStop({9500, 10000})

Spec == Init /\ [][Next]_vars

\* ------------------------------------------------------------------------
\* Risk sizing: portfolios typed at both ends of the input's range, at its
\* default and just above its minimum, against every position of the risk
\* slider.
\* ------------------------------------------------------------------------

PortfolioSpan == 5

PortfolioChoices ==
  {PortfolioInput.value, PortfolioInput.max_value}
    \cup PortfolioInput.min_value..(PortfolioInput.min_value + PortfolioSpan)

NextSizing ==
  \/ Render
  \/ ChangePortfolio(PortfolioChoices)
  \/ ChangeRisk(RiskSlider.min_value..RiskSlider.max_value)

SpecSizing == InitWith({"nearest"}) /\ [][NextSizing]_vars

\* ------------------------------------------------------------------------
\* Drawdown: the same portfolios against the ends of the drawdown slider
\* and the positions around its default.
\* ------------------------------------------------------------------------

DDSpan == 20

DDChoices ==
  {MaxDDSlider.min_value, MaxDDSlider.max_value}
    \cup (MaxDDSlider.value - DDSpan)..(MaxDDSlider.value + DDSpan)

NextDrawdown ==
  \/ Render
  \/ ChangePortfolio(PortfolioChoices)
  \/ ChangeMaxDD(DDChoices)

SpecDrawdown == InitWith({"nearest"}) /\ [][NextDrawdown]_vars

\* ------------------------------------------------------------------------
\* Scenarios: the best and normal return sliders at the ends of the range,
\* at the best-case default and at the lowest tens, the worst return slider
\* at its default and at zero, under each rounding of pow().
\* ------------------------------------------------------------------------

SliderTens == 2

ScenarioChoices ==
  {BestSlider.min_value, BestSlider.max_value, BestSlider.value}
    \cup {10 * k : k \in 1..SliderTens}

NextScenarios ==
  \/ Render
  \/ ChangePortfolio({PortfolioInput.value, PortfolioInput.min_value})
  \/ ChangeBest(ScenarioChoices)
  \/ ChangeNormal(ScenarioChoices)
  \/ ChangeWorst({WorstSlider(0).min_value, WorstSlider(0).value})

SpecScenarios == Init /\ [][NextScenarios]_vars

\* ------------------------------------------------------------------------
\* Position calculator: entry and stop prices at the lowest price, at the
\* default entry, in the cents from the default stop upwards, and one cent
\* apart at 10000.00, where the total value shown passes 2^31.
\* ------------------------------------------------------------------------

PriceSpan == 7

PriceChoices ==
  {EntryInput.min_value, EntryInput.value}
    \cup StopInput.value..(StopInput.value + PriceSpan)
    \cup {100 * EntryInput.value - 1, 100 * EntryInput.value}

NextPosition ==
  \/ Render
  \/ ChangeRisk({RiskSlider.min_value, RiskSlider.value, RiskSlider.max_value})
  \/ ChangeEntry(PriceChoices)
  \/ ChangeStop(PriceChoices)

SpecPosition == InitWith({"nearest"}) /\ [][NextPosition]_vars

----------------------------------------------------------------------------
(* Measures used by the properties.                                        *)

\* |a - b| <= k * 2^b.exp for floats a, b > 0: a lies within k units in the
\* last place of b.
WithinUlps(a, b, k) ==
  LET e  == Min2(a.exp, b.exp)
      ma == BShl(a.man, a.exp - e)
      mb == BShl(b.man, b.exp - e)
  IN  /\ a.sgn = 0 /\ b.sgn = 0
      /\ BCmp(IF BCmp(ma, mb) >= 0 THEN BSub(ma, mb) ELSE BSub(mb, ma),
              BShl(BFromInt(k), b.exp - e)) <= 0

\* |a - num/den| <= 2^-48 * num/den for a float a > 0 and multi-limb
\* naturals num, den > 0.
NearRational(a, num, den) ==
  LET l == BMul(BShl(a.man, Max2(a.exp, 0)), den)
      r == BShl(num, Max2(0 - a.exp, 0))
  IN  /\ a.sgn = 0
      /\ BCmp(BShl(IF BCmp(l, r) >= 0 THEN BSub(l, r) ELSE BSub(r, l), 48),
              r) <= 0

\* The pass has run to its end.
Done == status = "done"

Portfolio == widgets[PortfolioInput]

AtDefaults ==
  /\ Done
  /\ \A w \in DOMAIN widgets : widgets[w] = w.value

----------------------------------------------------------------------------
(* Properties.                                                             *)

\* C1: every pass uses slider values with
\* 0 <= worst_case <= normal_case <= best_case <= 100.
C1_SliderOrder ==
  status # "rerun" =>
    /\ 0 <= worst_case /\ worst_case <= normal_case
    /\ normal_case <= best_case /\ best_case <= 100

\* C3: a pass ends either by running to its end, with every derived value
\* and every figure defined, or in a division by zero; the division by zero
\* happens exactly when the entry price equals the stop-loss price (the
\* risk amount, the other divisor, is never zero for values the controls
\* accept), and leaves the position size undefined.
C3_OnlyDivisionByZero ==
  status # "rerun" =>
    /\ raised \in {0, 186}
    /\ status = (IF raised = 0 THEN "done" ELSE "ZeroDivisionError")
    /\ ~FIsZero(risk_amount)
    /\ raised = 186 <=> widgets[EntryInput] = widgets[StopInput]
    /\ raised = 186 => position_size = None /\ page.position_size = None
    /\ raised = 0 =>
         /\ \A f \in DOMAIN page : page[f] # None
         /\ max_trades # None /\ max_trades # ZeroDivisionError
         /\ position_size # None /\ position_size # ZeroDivisionError
         /\ total_position_value # None
         /\ Len(best_case_proj) = Months
         /\ Len(normal_case_proj) = Months
         /\ Len(worst_case_proj) = Months

C3_DividedByZero ==
  /\ status = "ZeroDivisionError"
  /\ raised = 186
  /\ widgets[EntryInput] = widgets[StopInput]

\* C4 as stated: nothing is kept from one pass to the next.
C4_NothingPersists == session_state = <<>>

\* What a completed pass produced is what the current values of the controls
\* give, whatever passes came before.
C4_CurrentValuesOnly ==
  Done =>
    /\ initial_portfolio = Portfolio
    /\ risk_amount = RiskAmount(Portfolio, Tenths(widgets[RiskSlider]))
    /\ max_loss = MaxLoss(Portfolio, Tenths(widgets[MaxDDSlider]))
    /\ page.max_trades = <<FTrunc(MaxTrades(Portfolio, risk_amount))>>
    /\ best_case = widgets[BestSlider]
    /\ normal_case = widgets[NormalSlider(best_case)]
    /\ worst_case = widgets[WorstSlider(normal_case)]
    /\ best_case_proj = Projection(Portfolio, best_case, libm)
    /\ entry_price = Cents(widgets[EntryInput])
    /\ stop_loss = Cents(widgets[StopInput])
    /\ page.position_size =
         Fixed2(PositionSize(risk_amount, entry_price, stop_loss))

\* session_state changes once: the first pass that runs to its end stores
\* an empty portfolio_history.
C4_HistoryStoredOnce ==
  \/ session_state' = session_state
  \/ /\ session_state = <<>>
     /\ session_state' = [portfolio_history |-> <<>>]
     /\ status' # "rerun"

\* C4: what a completed pass produces is a function of the current values
\* of the controls alone, whatever passes came before; the one thing kept
\* across passes is session_state.portfolio_history, an empty list that the
\* first completed pass stores and no pass reads or changes afterwards.
C4_Transient ==
  /\ [](C4_CurrentValuesOnly /\ (status # "rerun" => session_state # <<>>))
  /\ [][C4_HistoryStoredOnce]_vars

C4_RerunAfterChange ==
  /\ Done
  /\ session_state = [portfolio_history |-> <<>>]
  /\ Portfolio # PortfolioInput.value
  /\ widgets[RiskSlider] # RiskSlider.value
  /\ widgets[StopInput] # StopInput.value

\* C9: in a pass that reaches the projection, every month has
\* portfolio <= worst <= normal <= best, and no scenario's projection falls
\* from one month to the next.
C9_ProjectionOrder ==
  Done =>
    \A m \in 1..Months :
      /\ FLe(IntToF(initial_portfolio), worst_case_proj[m])
      /\ FLe(worst_case_proj[m], normal_case_proj[m])
      /\ FLe(normal_case_proj[m], best_case_proj[m])
      /\ m > 1 =>
           /\ FLe(worst_case_proj[m - 1], worst_case_proj[m])
           /\ FLe(normal_case_proj[m - 1], normal_case_proj[m])
           /\ FLe(best_case_proj[m - 1], best_case_proj[m])

\* C5: the number of simultaneous trades shown is the floor of
\* portfolio / riskAmount with riskAmount = portfolio * (riskPct / 100),
\* that is the floor of 100 / riskPct.
C5_FlooredTrades ==
  Done => page.max_trades = <<1000 \div widgets[RiskSlider]>>

\* C10: the Average Trade Size shown equals the risk amount shown.
C10_AverageIsRisk ==
  Done => page.average_trade_size = page.risk_amount

\* C6: max_loss is portfolio * (max_dd / 100), remaining_portfolio is
\* portfolio - max_loss, and remaining_portfolio + max_loss gives back the
\* portfolio exactly; 75000 at 32.6 % shows 24450.00 and 50550.00.
C6_DrawdownSplit ==
  Done =>
    /\ NearRational(max_loss,
                    BMul(BFromInt(Portfolio), BFromInt(widgets[MaxDDSlider])),
                    BFromInt(1000))
    /\ FAdd(remaining_portfolio, max_loss) = IntToF(Portfolio)
    /\ (Portfolio = 75000 /\ widgets[MaxDDSlider] = 326) =>
         /\ page.max_loss = <<(<<24, 450>>), 0>>
         /\ page.remaining_portfolio = <<(<<50, 550>>), 0>>

C6_OffDefault ==
  /\ Done
  /\ Portfolio = PortfolioInput.min_value + 1
  /\ widgets[MaxDDSlider] = MaxDDSlider.value + 1
  /\ FAdd(remaining_portfolio, max_loss) = IntToF(Portfolio)

\* The risk a stop-loss hit consumes: position_size * |entry - stop|.
RiskAtStop == FMul(position_size, FAbs(FSub(entry_price, stop_loss)))

\* C2 as stated: position_size * |entry - stop| is the risk amount exactly.
C2_ExactRisk == Done => RiskAtStop = risk_amount

\* C2: with the stop below or above the entry, position_size is
\* |risk_amount / (entry - stop)|, a positive number of units, and the total
\* is position_size * entry, each up to floating-point rounding:
\* position_size * |entry - stop| gives back the risk amount, and
\* total / entry the position size, to within two units in the last place;
\* 1500 at entry 100 and stop 95 shows 300.00 units and a total of 30000.00.
C2_RiskWithinRounding ==
  Done =>
    /\ position_size.sgn = 0
    /\ WithinUlps(RiskAtStop, risk_amount, 2)
    /\ WithinUlps(FDiv(total_position_value, entry_price), position_size, 2)
    /\ AtDefaults =>
         /\ page.risk_amount = <<(<<1, 500>>), 0>>
         /\ page.position_size = <<(<<300>>), 0>>
         /\ page.total_position_value = <<(<<30, 0>>), 0>>

C2_InexactRisk ==
  /\ Done
  /\ widgets[StopInput] > widgets[EntryInput]
  /\ RiskAtStop # risk_amount

\* The exact value portfolio * (100 + pct)^m / 100^m against the projection
\* the pass stored for month m.
NearCompound(proj, pct) ==
  LET num == ExactPowers(BFromInt(100 + pct), Months)
      den == ExactPowers(BFromInt(100), Months)
  IN  /\ Len(proj) = Months
      /\ \A m \in 1..Months :
           NearRational(proj[m], BMul(BFromInt(Portfolio), num[m]), den[m])

\* C7: each scenario's projection has exactly 12 points, and the point of
\* month m is portfolio * (1 + pct/100)^m up to floating-point rounding
\* (a relative error of at most 2^-48).
C7_CompoundProjection ==
  Done =>
    /\ NearCompound(best_case_proj, best_case)
    /\ NearCompound(normal_case_proj, normal_case)
    /\ NearCompound(worst_case_proj, worst_case)

C7_ProjectedOffDefault ==
  /\ Done
  /\ libm = "below"
  /\ Portfolio = PortfolioInput.min_value
  /\ best_case = 100 /\ normal_case = 10 /\ worst_case = 0
  /\ Len(best_case_proj) = Months

IdenticalThenDiverge(proj, pct) ==
  /\ proj[1] = LinearProjection(Portfolio, pct)[1]
  /\ \A m \in 2..Months : proj[m] # LinearProjection(Portfolio, pct)[m]

\* C8 as stated: for each scenario the linear and the compound projection
\* are identical at month 1 and differ at every month from 2 to 12.
C8_IdenticalThenDiverge ==
  Done =>
    /\ IdenticalThenDiverge(best_case_proj, best_case)
    /\ IdenticalThenDiverge(normal_case_proj, normal_case)
    /\ IdenticalThenDiverge(worst_case_proj, worst_case)

CloseThenDiverge(proj, pct) ==
  LET linear == LinearProjection(Portfolio, pct)
  IN  /\ WithinUlps(linear[1], proj[1], 4)
      /\ Fixed2(linear[1]) = Fixed2(proj[1])
      /\ pct > 0 => \A m \in 2..Months : FCmp(linear[m], proj[m]) = -1
      /\ pct = 0 => \A m \in 1..Months : linear[m] = proj[m]

\* C8: at month 1 the linear and the compound projection agree up to
\* floating-point rounding (within four units in the last place, and to the
\* cent); from month 2 on the compound projection is above the linear one
\* when the percentage is above zero, and both stay at the portfolio when
\* it is zero; 75000 at 66 % gives 124500.00 for both at month 1.
C8_CloseThenDiverge ==
  Done =>
    /\ CloseThenDiverge(best_case_proj, best_case)
    /\ CloseThenDiverge(normal_case_proj, normal_case)
    /\ CloseThenDiverge(worst_case_proj, worst_case)
    /\ (Portfolio = 75000 /\ best_case = 66) =>
         /\ Fixed2(best_case_proj[1]) = <<(<<124, 500>>), 0>>
         /\ Fixed2(LinearProjection(Portfolio, best_case)[1]) = <<(<<124, 500>>), 0>>

C8_RoundedApart ==
  /\ AtDefaults
  /\ best_case_proj[1] # LinearProjection(Portfolio, best_case)[1]
  /\ FCmp(LinearProjection(Portfolio, worst_case)[2], worst_case_proj[2]) = -1

====
